---- MODULE Spec2Model ----
(***************************************************************************)
(* tonic-metrics: the tower middlewares ServerMetricsMiddleware            *)
(* (src/src/lib.rs) and ClientMetricsMiddleware (src/src/client.rs), which *)
(* time every call through a wrapped gRPC service and record the duration  *)
(* in a labelled histogram.                                                *)
(*                                                                         *)
(* A Rust string is a sequence of atoms (single characters where the code  *)
(* slices or searches it), Option<T> is None or Some(x), Result<T, E> is   *)
(* Ok(r) or Err(e).                                                        *)
(***************************************************************************)
EXTENDS Integers, Sequences, FiniteSets, TLC

VARIABLES
    server_mw,    \* Option<ServerMetricsMiddleware>: None until layer() ran
    client_mw,    \* Option<ClientMetricsMiddleware>: None until constructed
    addr_arg,     \* the addr argument the client constructor was given
    described,    \* histograms registered with describe_histogram!
    next_handle,  \* identity of the next inner-service handle to be made
    poll_out,     \* per middleware, what its poll_ready returned last
    calls,        \* the futures returned by call(), in the order of the calls
    histogram,    \* the metrics sink: the observations recorded so far
    now,          \* the monotonic clock read by Instant::now(), in ticks
    stdout        \* the lines written to the process's standard output

vars == <<server_mw, client_mw, addr_arg, described, next_handle, poll_out,
          calls, histogram, now, stdout>>

----------------------------------------------------------------------------
(* Bounds of the model.                                                    *)

MaxCalls == 2
MaxTimedCalls == 2
MaxLabelCalls == 1
MaxAddressCalls == 2
MaxReadyCalls == 2
MaxClock == 3
TicksPerMs == 2
MaxPathLen == 5
MaxAddrTokens == 3

----------------------------------------------------------------------------
(* Option, Result and string helpers.                                      *)

None == [none |-> TRUE]
Some(x) == [some |-> x]
IsSome(o) == "some" \in DOMAIN o
IsNone(o) == "none" \in DOMAIN o

Ok(r) == [ok |-> r]
Err(e) == [err |-> e]
IsOk(r) == "ok" \in DOMAIN r
IsErr(r) == "err" \in DOMAIN r

\* s[from..to] and s[from..] of Rust, with 0-based offsets
Slice(s, from, to) == SubSeq(s, from + 1, to)
SliceFrom(s, from) == SubSeq(s, from + 1, Len(s))

\* str::starts_with
starts_with(s, prefix) ==
    /\ Len(s) >= Len(prefix)
    /\ SubSeq(s, 1, Len(prefix)) = prefix

\* str::find(char): the 0-based offset of the first occurrence
find(s, ch) ==
    LET hits == {i \in 1..Len(s) : s[i] = ch}
    IN IF hits = {} THEN None
       ELSE Some((CHOOSE i \in hits : \A j \in hits : i <= j) - 1)

Sides == {"server", "client"}

----------------------------------------------------------------------------
(* Metric names.                                                           *)

RPC_SERVER_DURATION == "rpc.server.duration"

\* crate::RPC_CLIENT_DURATION is imported by client.rs from the crate root
RPC_CLIENT_DURATION == "rpc.client.duration"

\* the histogram each middleware records into (lib.rs 101, client.rs 124)
MetricOf(side) ==
    IF side = "server" THEN RPC_SERVER_DURATION ELSE RPC_CLIENT_DURATION

----------------------------------------------------------------------------
(* The http crate's types as the middlewares use them.                     *)

Versions == {"HTTP_09", "HTTP_10", "HTTP_11", "HTTP_2", "HTTP_3", "OTHER"}

\* StatusCode::is_client_error and StatusCode::is_server_error
is_client_error(status) == 400 <= status /\ status < 500
is_server_error(status) == 500 <= status /\ status < 600

\* StatusCode::canonical_reason, for the codes the model uses
canonical_reason(status) ==
    CASE status = 100 -> Some("Continue")
      [] status = 200 -> Some("OK")
      [] status = 204 -> Some("No Content")
      [] status = 301 -> Some("Moved Permanently")
      [] status = 400 -> Some("Bad Request")
      [] status = 404 -> Some("Not Found")
      [] status = 500 -> Some("Internal Server Error")
      [] status = 503 -> Some("Service Unavailable")
      [] OTHER -> None

\* StatusCode's Display: "{code} {canonical reason}"
status_to_string(status) ==
    <<ToString(status), " ",
      IF IsSome(canonical_reason(status))
      THEN canonical_reason(status).some
      ELSE "<unknown status code>">>

----------------------------------------------------------------------------
(* Server side: route parsing and protocol version (lib.rs).               *)

ServerSeparator_FromStart(path) ==
    IF Len(path) > 0 /\ path[1] = "/"
    THEN LET p == find(path, "/")
         IN IF IsSome(p) THEN Some(p.some + 1) ELSE None
    ELSE None

\* lib.rs 61-66: the offset of the '/' that separates service and method
ServerSeparator(path) ==
    IF Len(path) > 0 /\ path[1] = "/"
    THEN LET p == find(SliceFrom(path, 1), "/")
         IN IF IsSome(p) THEN Some(p.some + 1) ELSE None
    ELSE None

ServerRoute_ServiceOnly(path) ==
    LET service_method_separator == ServerSeparator(path)
    IN IF IsSome(service_method_separator)
       THEN LET sep == service_method_separator.some
            IN [rpc_service |-> Slice(path, 1, sep),
                rpc_method  |-> SliceFrom(path, sep + 1)]
       ELSE IF Len(path) > 0 /\ path[1] = "/"
       THEN [rpc_service |-> SliceFrom(path, 1), rpc_method |-> <<>>]
       ELSE [rpc_service |-> <<>>, rpc_method |-> path]

\* lib.rs 68-75: (rpc_service, rpc_method)
ServerRoute(path) ==
    LET service_method_separator == ServerSeparator(path)
    IN IF IsSome(service_method_separator)
       THEN LET sep == service_method_separator.some
            IN [rpc_service |-> Slice(path, 1, sep),
                rpc_method  |-> SliceFrom(path, sep + 1)]
       \* If unparseable, say service is empty and method is the entire path
       ELSE [rpc_service |-> <<>>, rpc_method |-> path]

server_network_protocol_version_DefaultHttp2(req) ==
    LET version == req.version
    IN CASE version = "HTTP_09" -> Some(<<"0", ".", "9">>)
         [] version = "HTTP_10" -> Some(<<"1", ".", "0">>)
         [] version = "HTTP_11" -> Some(<<"1", ".", "1">>)
         [] version = "HTTP_3"  -> Some(<<"3">>)
         [] OTHER -> Some(<<"2">>)

\* lib.rs 108-119
server_network_protocol_version(req) ==
    LET version == req.version
    IN CASE version = "HTTP_09" -> Some(<<"0", ".", "9">>)
         [] version = "HTTP_10" -> Some(<<"1", ".", "0">>)
         [] version = "HTTP_11" -> Some(<<"1", ".", "1">>)
         [] version = "HTTP_2"  -> Some(<<"2">>)
         [] version = "HTTP_3"  -> Some(<<"3">>)
         [] OTHER -> None

ServerLabels_NumericError(rpc_service, rpc_method, version, status) ==
    <<  <<"rpc.system", <<"grpc">> >>,
        <<"network.protocol.name", <<"http">> >>,
        <<"network.transport", <<"tcp">> >>,
        <<"rpc.method", rpc_method>>,
        <<"rpc.service", rpc_service>> >>
    \o (IF IsSome(version)
        THEN << <<"network.protocol.version", version.some>> >> ELSE <<>>)
    \o (IF is_server_error(status)
        THEN << <<"error.type", <<ToString(status)>> >> >> ELSE <<>>)

\* lib.rs 85-99: the labels pushed, in order
ServerLabels(rpc_service, rpc_method, version, status) ==
    <<  <<"rpc.system", <<"grpc">> >>,
        <<"network.protocol.name", <<"http">> >>,
        <<"network.transport", <<"tcp">> >>,
        <<"rpc.method", rpc_method>>,
        <<"rpc.service", rpc_service>> >>
    \o (IF IsSome(version)
        THEN << <<"network.protocol.version", version.some>> >> ELSE <<>>)
    \o (IF is_client_error(status) \/ is_server_error(status)
        THEN << <<"error.type", status_to_string(status)>> >> ELSE <<>>)

----------------------------------------------------------------------------
(* Client side: address, route parsing and protocol version (client.rs).   *)

HTTP_SCHEME == <<"h", "t", "t", "p", ":", "/", "/">>
HTTPS_SCHEME == <<"h", "t", "t", "p", "s", ":", "/", "/">>

canonical_addr_StripAll(addr) ==
    IF IsSome(addr)
    THEN LET RECURSIVE strip(_)
             strip(a) ==
                 IF starts_with(a, HTTP_SCHEME) THEN strip(SliceFrom(a, 7))
                 ELSE IF starts_with(a, HTTPS_SCHEME) THEN strip(SliceFrom(a, 8))
                 ELSE a
         IN Some(strip(addr.some))
    ELSE None

\* client.rs 33-43: the address stored by with_server_address
canonical_addr(addr) ==
    IF IsSome(addr)
    THEN Some(IF starts_with(addr.some, HTTP_SCHEME)
              THEN SliceFrom(addr.some, 7)
              ELSE IF starts_with(addr.some, HTTPS_SCHEME)
              THEN SliceFrom(addr.some, 8)
              ELSE addr.some)
    ELSE None

\* client.rs 75-80
ClientSeparator(path) ==
    IF Len(path) > 0 /\ path[1] = "/"
    THEN LET p == find(SliceFrom(path, 1), "/")
         IN IF IsSome(p) THEN Some(p.some + 1) ELSE None
    ELSE None

ClientRoute_LastSlash(path) ==
    LET hits == {i \in 2..Len(path) : path[i] = "/"}
    IN IF Len(path) > 0 /\ path[1] = "/" /\ hits # {}
       THEN LET sep == (CHOOSE i \in hits : \A j \in hits : j <= i) - 1
            IN [rpc_service |-> Slice(path, 1, sep),
                rpc_method  |-> SliceFrom(path, sep + 1)]
       ELSE [rpc_service |-> <<>>, rpc_method |-> path]

ClientRoute_NeverEmpty(path) ==
    LET service_method_separator == ClientSeparator(path)
    IN IF IsSome(service_method_separator)
          /\ service_method_separator.some + 1 < Len(path)
       THEN LET sep == service_method_separator.some
            IN [rpc_service |-> Slice(path, 1, sep),
                rpc_method  |-> SliceFrom(path, sep + 1)]
       ELSE [rpc_service |-> <<>>,
             rpc_method |-> IF path = <<>> THEN <<"/">> ELSE path]

\* client.rs 82-89: (rpc_service, rpc_method)
ClientRoute(path) ==
    LET service_method_separator == ClientSeparator(path)
    IN IF IsSome(service_method_separator)
       THEN LET sep == service_method_separator.some
            IN [rpc_service |-> Slice(path, 1, sep),
                rpc_method  |-> SliceFrom(path, sep + 1)]
       \* If unparsable, say service is empty and method is the entire path
       ELSE [rpc_service |-> <<>>, rpc_method |-> path]

UNKNOWN == <<"unknown">>

ClientServer_HostFirst(server_address, req) ==
    IF IsSome(req.host) THEN req.host.some
    ELSE IF IsSome(server_address) THEN server_address.some
    ELSE UNKNOWN

\* client.rs 91-94: the value of server.address
ClientServer(server_address, req) ==
    IF IsSome(server_address)
    THEN server_address.some
    ELSE IF IsSome(req.host) THEN req.host.some ELSE UNKNOWN

\* client.rs 131-142
client_network_protocol_version(req) ==
    LET version == req.version
    IN CASE version = "HTTP_09" -> Some(<<"0", ".", "9">>)
         [] version = "HTTP_10" -> Some(<<"1", ".", "0">>)
         [] version = "HTTP_11" -> Some(<<"1", ".", "1">>)
         [] version = "HTTP_2"  -> Some(<<"2">>)
         [] version = "HTTP_3"  -> Some(<<"3">>)
         [] OTHER -> None

ClientLabels_VersionFirst(rpc_service, rpc_method, server, version, status) ==
    <<  <<"rpc.system", <<"grpc">> >>,
        <<"network.protocol.name", <<"http">> >>,
        <<"network.transport", <<"tcp">> >>,
        <<"rpc.method", rpc_method>>,
        <<"rpc.service", rpc_service>> >>
    \o (IF IsSome(version)
        THEN << <<"network.protocol.version", version.some>> >> ELSE <<>>)
    \o << <<"server.address", server>> >>
    \o (IF is_client_error(status) \/ is_server_error(status)
        THEN << <<"error.type", status_to_string(status)>> >> ELSE <<>>)

\* client.rs 106-122: the labels pushed, in order
ClientLabels(rpc_service, rpc_method, server, version, status) ==
    <<  <<"rpc.system", <<"grpc">> >>,
        <<"network.protocol.name", <<"http">> >>,
        <<"network.transport", <<"tcp">> >>,
        <<"rpc.method", rpc_method>>,
        <<"rpc.service", rpc_service>>,
        <<"server.address", server>> >>
    \o (IF IsSome(version)
        THEN << <<"network.protocol.version", version.some>> >> ELSE <<>>)
    \o (IF is_client_error(status) \/ is_server_error(status)
        THEN << <<"error.type", status_to_string(status)>> >> ELSE <<>>)

\* duration.as_millis() of Instant::now().duration_since(start)
duration_millis(start, end) ==
    (IF end >= start THEN end - start ELSE 0) \div TicksPerMs

----------------------------------------------------------------------------
(* The state machine.                                                      *)

PollResults == {"Ready", "Pending", "Err"}

\* S::clone(): a new handle on the inner service, not yet driven to readiness
NewHandle == [id |-> next_handle, polled |-> "NotPolled"]

Init ==
    /\ server_mw = None
    /\ client_mw = None
    /\ addr_arg = None
    /\ described = {}
    /\ next_handle = 1
    /\ poll_out = [s \in Sides |-> None]
    /\ calls = <<>>
    /\ histogram = <<>>
    /\ now = 0
    /\ stdout = <<>>

\* lib.rs 22-29: ServerMetricsLayer::layer
layer ==
    /\ IsNone(server_mw)
    /\ described' = described \cup
           {<<RPC_SERVER_DURATION, "Milliseconds",
              "Measures the duration of inbound RPC">>}
    /\ server_mw' = Some([inner |-> NewHandle])
    /\ next_handle' = next_handle + 1
    /\ UNCHANGED <<client_mw, addr_arg, poll_out, calls, histogram, now, stdout>>

\* client.rs 26-48: ClientMetricsMiddleware::with_server_address
\* (client.rs 22-24: new(inner) is with_server_address(inner, None))
with_server_address(addr) ==
    /\ IsNone(client_mw)
    /\ described' = described \cup
           {<<RPC_CLIENT_DURATION, "Milliseconds",
              "Measures the duration of outbound RPC">>}
    /\ client_mw' = Some([inner |-> NewHandle,
                          server_address |-> canonical_addr(addr)])
    /\ addr_arg' = addr
    /\ next_handle' = next_handle + 1
    /\ UNCHANGED <<server_mw, poll_out, calls, histogram, now, stdout>>

\* client.rs 22-24: ClientMetricsMiddleware::new
new == with_server_address(None)

ServerPollReady_OwnAdmission(r) ==
    /\ IsSome(server_mw)
    /\ server_mw' = Some([server_mw.some EXCEPT !.inner.polled = r])
    /\ poll_out' = [poll_out EXCEPT !["server"] =
           IF \E c \in 1..Len(calls) : calls[c].pc \in {"created", "awaiting"}
           THEN Some("Pending") ELSE Some(r)]
    /\ UNCHANGED <<client_mw, addr_arg, described, next_handle, calls,
                   histogram, now, stdout>>

\* lib.rs 49-51: poll_ready, r being the answer of the inner service
ServerPollReady(r) ==
    /\ IsSome(server_mw)
    /\ server_mw' = Some([server_mw.some EXCEPT !.inner.polled = r])
    /\ poll_out' = [poll_out EXCEPT !["server"] = Some(r)]
    /\ UNCHANGED <<client_mw, addr_arg, described, next_handle, calls,
                   histogram, now, stdout>>

\* client.rs 63-65: poll_ready, r being the answer of the inner service
ClientPollReady(r) ==
    /\ IsSome(client_mw)
    /\ client_mw' = Some([client_mw.some EXCEPT !.inner.polled = r])
    /\ poll_out' = [poll_out EXCEPT !["client"] = Some(r)]
    /\ UNCHANGED <<server_mw, addr_arg, described, next_handle, calls,
                   histogram, now, stdout>>

ServerCall_DispatchOnClone(req) ==
    /\ IsSome(server_mw)
    /\ server_mw.some.inner.polled = "Ready"
    /\ LET inner == NewHandle
           route == ServerRoute(req.path)
       IN calls' = Append(calls,
                 [side |-> "server", req |-> req, inner |-> inner,
                  start |-> now,
                  rpc_service |-> route.rpc_service,
                  rpc_method |-> route.rpc_method,
                  server |-> None,
                  version |-> server_network_protocol_version(req),
                  pc |-> "created", inner_reqs |-> <<>>,
                  inner_out |-> None, result |-> None, waited |-> None,
                  done_at |-> None, events |-> <<"call">>])
    /\ next_handle' = next_handle + 1
    /\ UNCHANGED <<server_mw, client_mw, addr_arg, described, poll_out,
                   histogram, now, stdout>>

\* lib.rs 53-79: call, up to the construction of the returned future.
\* tower's Service contract has the caller drive poll_ready to Ready on the
\* held handle before each call; the future takes that handle and a fresh
\* clone stays in the middleware.
ServerCall(req) ==
    /\ IsSome(server_mw)
    /\ server_mw.some.inner.polled = "Ready"
    /\ LET clone == NewHandle
           inner == server_mw.some.inner
           start == now
           path == req.path
           route == ServerRoute(path)
           version == server_network_protocol_version(req)
       IN /\ server_mw' = Some([server_mw.some EXCEPT !.inner = clone])
          /\ calls' = Append(calls,
                 [side |-> "server", req |-> req, inner |-> inner,
                  start |-> start,
                  rpc_service |-> route.rpc_service,
                  rpc_method |-> route.rpc_method,
                  server |-> None, version |-> version,
                  pc |-> "created", inner_reqs |-> <<>>,
                  inner_out |-> None, result |-> None, waited |-> None,
                  done_at |-> None, events |-> <<"call">>])
    /\ next_handle' = next_handle + 1
    /\ UNCHANGED <<client_mw, addr_arg, described, poll_out, histogram, now,
                   stdout>>

\* client.rs 67-100: call, up to the construction of the returned future
\* (the same contract on poll_ready; line 96 writes the URI to stdout)
ClientCall(req) ==
    /\ IsSome(client_mw)
    /\ client_mw.some.inner.polled = "Ready"
    /\ LET clone == NewHandle
           inner == client_mw.some.inner
           start == now
           path == req.path
           route == ClientRoute(path)
           server == ClientServer(client_mw.some.server_address, req)
           version == client_network_protocol_version(req)
       IN /\ client_mw' = Some([client_mw.some EXCEPT !.inner = clone])
          /\ stdout' = Append(stdout, <<"\n\n URI: ", req.host, req.path>>)
          /\ calls' = Append(calls,
                 [side |-> "client", req |-> req, inner |-> inner,
                  start |-> start,
                  rpc_service |-> route.rpc_service,
                  rpc_method |-> route.rpc_method,
                  server |-> Some(server), version |-> version,
                  pc |-> "created", inner_reqs |-> <<>>,
                  inner_out |-> None, result |-> None, waited |-> None,
                  done_at |-> None, events |-> <<"call">>])
    /\ next_handle' = next_handle + 1
    /\ UNCHANGED <<server_mw, addr_arg, described, poll_out, histogram, now>>

\* lib.rs 80: inner.call(req)
ServerDispatched(call) ==
    << [handle |-> call.inner.id, req |-> call.req] >>

ClientDispatched_OtherRequest(call) ==
    << [handle |-> call.inner.id,
        req |-> [call.req EXCEPT !.path = <<"/">> \o @]] >>

\* client.rs 101: inner.call(req)
ClientDispatched(call) ==
    << [handle |-> call.inner.id, req |-> call.req] >>

\* First poll of a future: the request is handed to the inner service and
\* the future suspends on the inner future (lib.rs 80, client.rs 101).
Dispatch(c) ==
    /\ c \in 1..Len(calls)
    /\ calls[c].pc = "created"
    /\ calls' = [calls EXCEPT ![c] =
           [@ EXCEPT !.pc = "awaiting",
                     !.waited = Some(duration_millis(calls[c].start, now)),
                     !.inner_reqs = @ \o (IF calls[c].side = "server"
                                          THEN ServerDispatched(calls[c])
                                          ELSE ClientDispatched(calls[c])),
                     !.events = @ \o <<"inner.call">>]]
    /\ UNCHANGED <<server_mw, client_mw, addr_arg, described, next_handle,
                   poll_out, histogram, now, stdout>>

ServerOutcome_MaskError(out) ==
    IF IsErr(out) THEN Err("masked") ELSE Ok(out.ok)

\* lib.rs 80 and 103: `?` hands an Err back, Ok(response) the response
ServerOutcome(out) ==
    IF IsErr(out) THEN Err(out.err) ELSE Ok(out.ok)

\* client.rs 101 and 126: `?` hands an Err back, Ok(response) the response
ClientOutcome(out) ==
    IF IsErr(out) THEN Err(out.err) ELSE Ok(out.ok)

ServerObservations_AlsoOnErr(c, call, out, end) ==
    << [name |-> RPC_SERVER_DURATION,
        labels |-> ServerLabels(call.rpc_service, call.rpc_method,
                                call.version,
                                IF IsOk(out) THEN out.ok.status ELSE 500),
        value |-> duration_millis(call.start, end),
        call |-> c] >>

ServerObservations_FromFirstPoll(c, call, out, end) ==
    IF IsErr(out) THEN <<>>
    ELSE << [name |-> RPC_SERVER_DURATION,
             labels |-> ServerLabels(call.rpc_service, call.rpc_method,
                                     call.version, out.ok.status),
             value |-> duration_millis(call.start, end) - call.waited.some,
             call |-> c] >>

\* lib.rs 80-101: what one resumption of the future records
ServerObservations(c, call, out, end) ==
    IF IsErr(out) THEN <<>>
    ELSE << [name |-> RPC_SERVER_DURATION,
             labels |-> ServerLabels(call.rpc_service, call.rpc_method,
                                     call.version, out.ok.status),
             value |-> duration_millis(call.start, end),
             call |-> c] >>

ClientObservations_SharedStart(c, call, out, end) ==
    IF IsErr(out) THEN <<>>
    ELSE << [name |-> RPC_CLIENT_DURATION,
             labels |-> ClientLabels(call.rpc_service, call.rpc_method,
                                     call.server.some, call.version,
                                     out.ok.status),
             value |-> duration_millis(calls[1].start, end),
             call |-> c] >>

\* client.rs 101-124: what one resumption of the future records
ClientObservations(c, call, out, end) ==
    IF IsErr(out) THEN <<>>
    ELSE << [name |-> RPC_CLIENT_DURATION,
             labels |-> ClientLabels(call.rpc_service, call.rpc_method,
                                     call.server.some, call.version,
                                     out.ok.status),
             value |-> duration_millis(call.start, end),
             call |-> c] >>

\* The steps one resumption goes through, in program order.
ResumeEvents(recorded) ==
    <<"inner.ready">>
    \o [i \in 1..Len(recorded) |-> "record"]
    \o <<"return">>

\* lib.rs 80-103: the inner future completes with `out`; the future runs to
\* its end in this one poll
ServerResume(c, out) ==
    /\ c \in 1..Len(calls)
    /\ calls[c].side = "server"
    /\ calls[c].pc = "awaiting"
    /\ LET recorded == ServerObservations(c, calls[c], out, now)
           result == ServerOutcome(out)
       IN /\ histogram' = histogram \o recorded
          /\ calls' = [calls EXCEPT ![c] =
                 [@ EXCEPT !.pc = IF IsOk(result) THEN "done" ELSE "failed",
                           !.inner_out = Some(out),
                           !.result = Some(result),
                           !.done_at = Some(now),
                           !.events = @ \o ResumeEvents(recorded)]]
    /\ UNCHANGED <<server_mw, client_mw, addr_arg, described, next_handle,
                   poll_out, now, stdout>>

\* client.rs 101-126: the inner future completes with `out`; the future runs
\* to its end in this one poll
ClientResume(c, out) ==
    /\ c \in 1..Len(calls)
    /\ calls[c].side = "client"
    /\ calls[c].pc = "awaiting"
    /\ LET recorded == ClientObservations(c, calls[c], out, now)
           result == ClientOutcome(out)
       IN /\ histogram' = histogram \o recorded
          /\ calls' = [calls EXCEPT ![c] =
                 [@ EXCEPT !.pc = IF IsOk(result) THEN "done" ELSE "failed",
                           !.inner_out = Some(out),
                           !.result = Some(result),
                           !.done_at = Some(now),
                           !.events = @ \o ResumeEvents(recorded)]]
    /\ UNCHANGED <<server_mw, client_mw, addr_arg, described, next_handle,
                   poll_out, now, stdout>>

Drop_PartialMeasurement(c) ==
    /\ c \in 1..Len(calls)
    /\ calls[c].pc \in {"created", "awaiting"}
    /\ calls' = [calls EXCEPT ![c] =
           [@ EXCEPT !.pc = "dropped", !.events = @ \o <<"record", "drop">>]]
    /\ histogram' = Append(histogram,
           [name |-> MetricOf(calls[c].side),
            labels |-> << <<"rpc.system", <<"grpc">> >> >>,
            value |-> duration_millis(calls[c].start, now),
            call |-> c])
    /\ UNCHANGED <<server_mw, client_mw, addr_arg, described, next_handle,
                   poll_out, now, stdout>>

\* The caller drops the future before it completed (lib.rs 79, client.rs
\* 100: the boxed future owns everything the call holds).
Drop(c) ==
    /\ c \in 1..Len(calls)
    /\ calls[c].pc \in {"created", "awaiting"}
    /\ calls' = [calls EXCEPT ![c] =
           [@ EXCEPT !.pc = "dropped", !.events = @ \o <<"drop">>]]
    /\ UNCHANGED <<server_mw, client_mw, addr_arg, described, next_handle,
                   poll_out, histogram, now, stdout>>

\* Time passes on the clock behind Instant::now().
Tick ==
    /\ now < MaxClock
    /\ now' = now + 1
    /\ UNCHANGED <<server_mw, client_mw, addr_arg, described, next_handle,
                   poll_out, calls, histogram, stdout>>

----------------------------------------------------------------------------
(* Spec: both middlewares under concurrent calls.                          *)

PEER == <<"peer.local">>

ReqEcho == [path |-> <<"/", "e", "/", "E">>, version |-> "HTTP_2",
            host |-> Some(PEER)]
ReqBare == [path |-> <<"x">>, version |-> "OTHER", host |-> None]
Requests == {ReqEcho, ReqBare}

Outcomes == {Ok([status |-> 200, body |-> "pong"]),
             Ok([status |-> 503, body |-> "busy"]),
             Err("connection reset")}

PollReadyServer == ServerPollReady("Ready")
PollReadyClient == ClientPollReady("Ready")
CallServer == Len(calls) < MaxCalls /\ \E req \in Requests : ServerCall(req)
CallClient == Len(calls) < MaxCalls /\ \E req \in Requests : ClientCall(req)
FirstPoll == \E c \in 1..Len(calls) : Dispatch(c)
ResumeServer == \E c \in 1..Len(calls), out \in Outcomes : ServerResume(c, out)
ResumeClient == \E c \in 1..Len(calls), out \in Outcomes : ClientResume(c, out)
Cancel == \E c \in 1..Len(calls) : Drop(c)

Next ==
    \/ layer
    \/ new
    \/ PollReadyServer
    \/ PollReadyClient
    \/ CallServer
    \/ CallClient
    \/ FirstPoll
    \/ ResumeServer
    \/ ResumeClient
    \/ Cancel

Spec == Init /\ [][Next]_vars

----------------------------------------------------------------------------
(* Vocabulary of the properties.                                           *)

CallIds == 1..Len(calls)

\* the positions in the sink of the observations call c recorded
ObsOf(c) == {i \in 1..Len(histogram) : histogram[i].call = c}

\* the inner service handed a response (resp. a failure) to call c
InnerResponded(c) == IsSome(calls[c].inner_out) /\ IsOk(calls[c].inner_out.some)
InnerFailed(c) == IsSome(calls[c].inner_out) /\ IsErr(calls[c].inner_out.some)

MetricName(side) ==
    IF side = "server" THEN "rpc.server.duration" ELSE "rpc.client.duration"

Positions(seq, x) == {i \in 1..Len(seq) : seq[i] = x}

----------------------------------------------------------------------------
(* C1: every call whose inner service returned a response, whatever its    *)
(* status, has recorded exactly one observation, under rpc.server.duration *)
(* on the server and rpc.client.duration on the client, after the inner    *)
(* call completed and before the response was handed back; and the sink    *)
(* holds exactly as many observations as calls completed with a response.  *)
C1_OneObservationPerCompletedCall ==
    /\ \A c \in CallIds :
          InnerResponded(c) =>
             /\ Cardinality(ObsOf(c)) = 1
             /\ \A i \in ObsOf(c) : histogram[i].name = MetricName(calls[c].side)
             /\ Cardinality(Positions(calls[c].events, "record")) = 1
             /\ \E i, j, k \in 1..Len(calls[c].events) :
                   /\ i < j /\ j < k
                   /\ calls[c].events[i] = "inner.ready"
                   /\ calls[c].events[j] = "record"
                   /\ calls[c].events[k] = "return"
    /\ Len(histogram) = Cardinality({c \in CallIds : InnerResponded(c)})

C1_Witness ==
    \E c, d \in CallIds :
       /\ calls[c].side = "server" /\ calls[d].side = "client"
       /\ InnerResponded(c) /\ calls[c].inner_out.some.ok.status = 503
       /\ InnerResponded(d) /\ calls[d].inner_out.some.ok.status = 200
       /\ Len(histogram) = 2

(* C2: when the inner call fails, the caller gets that same failure, the   *)
(* call records no observation, and the inner service was invoked once     *)
(* only (no retry).                                                        *)
C2_FailurePropagatedUnmeasured ==
    \A c \in CallIds :
       InnerFailed(c) =>
          /\ calls[c].result = Some(Err(calls[c].inner_out.some.err))
          /\ ObsOf(c) = {}
          /\ Len(calls[c].inner_reqs) = 1
          /\ "record" \notin {calls[c].events[i] : i \in 1..Len(calls[c].events)}

C2_Witness ==
    \E c, d \in CallIds :
       /\ calls[c].side = "server" /\ InnerFailed(c)
       /\ calls[d].side = "client" /\ InnerFailed(d)
       /\ calls[c].result = Some(Err("connection reset"))
       /\ histogram = <<>>

(* C3: the wrapper hands the request it was given to the inner service,    *)
(* at most once and exactly once for a call that finished, and the caller  *)
(* gets exactly the response or the failure the inner service produced.    *)
C3_BehaviourPreserving ==
    \A c \in CallIds :
       /\ Len(calls[c].inner_reqs) <= 1
       /\ \A i \in 1..Len(calls[c].inner_reqs) :
             calls[c].inner_reqs[i].req = calls[c].req
       /\ IsSome(calls[c].result) =>
             /\ Len(calls[c].inner_reqs) = 1
             /\ IsSome(calls[c].inner_out)
             /\ calls[c].result.some = calls[c].inner_out.some
       /\ IsSome(calls[c].inner_out) => IsSome(calls[c].result)

C3_Witness ==
    \E c, d \in CallIds :
       /\ calls[c].side = "client" /\ calls[c].req = ReqEcho
       /\ calls[c].result = Some(Ok([status |-> 503, body |-> "busy"]))
       /\ calls[d].side = "server" /\ calls[d].req = ReqBare
       /\ calls[d].result = Some(Err("connection reset"))

----------------------------------------------------------------------------
(* SpecTimed: one middleware, its calls overlapping in time.               *)

TimedOutcomes == {Ok([status |-> 200, body |-> "pong"])}

TimedLayer == IsNone(client_mw) /\ layer
TimedNew == IsNone(server_mw) /\ new
TimedCallServer ==
    Len(calls) < MaxTimedCalls /\ \E req \in Requests : ServerCall(req)
TimedCallClient ==
    Len(calls) < MaxTimedCalls /\ \E req \in Requests : ClientCall(req)
TimedResumeServer ==
    \E c \in 1..Len(calls), out \in TimedOutcomes : ServerResume(c, out)
TimedResumeClient ==
    \E c \in 1..Len(calls), out \in TimedOutcomes : ClientResume(c, out)

NextTimed ==
    \/ TimedLayer
    \/ TimedNew
    \/ PollReadyServer
    \/ PollReadyClient
    \/ TimedCallServer
    \/ TimedCallClient
    \/ FirstPoll
    \/ TimedResumeServer
    \/ TimedResumeClient
    \/ Tick

SpecTimed == Init /\ [][NextTimed]_vars

\* the labels a call's own request and response call for
OwnLabels(call) ==
    IF call.side = "server"
    THEN ServerLabels(ServerRoute(call.req.path).rpc_service,
                      ServerRoute(call.req.path).rpc_method,
                      server_network_protocol_version(call.req),
                      call.inner_out.some.ok.status)
    ELSE ClientLabels(ClientRoute(call.req.path).rpc_service,
                      ClientRoute(call.req.path).rpc_method,
                      ClientServer(client_mw.some.server_address, call.req),
                      client_network_protocol_version(call.req),
                      call.inner_out.some.ok.status)

(* C4: calls in flight together through one middleware, in any             *)
(* interleaving of their starts and completions, record one observation    *)
(* each, N in all, each with the labels of its own request and the         *)
(* milliseconds elapsed between its own start and its own completion.      *)
C4_ConcurrentCallsIndependent ==
    /\ Len(histogram) = Cardinality({c \in CallIds : InnerResponded(c)})
    /\ \A c \in CallIds :
          InnerResponded(c) =>
             /\ Cardinality(ObsOf(c)) = 1
             /\ \A i \in ObsOf(c) :
                   /\ histogram[i].labels = OwnLabels(calls[c])
                   /\ histogram[i].value =
                         (calls[c].done_at.some - calls[c].start) \div TicksPerMs
                   /\ histogram[i].value >= 0

C4_Witness ==
    /\ Len(calls) = 2 /\ Len(histogram) = 2
    /\ calls[1].side = calls[2].side
    /\ calls[1].req # calls[2].req
    /\ calls[1].start < calls[2].start
    /\ InnerResponded(1) /\ InnerResponded(2)
    /\ calls[2].done_at.some < calls[1].done_at.some
    /\ histogram[1].call = 2 /\ histogram[2].call = 1
    /\ histogram[1].value = 0 /\ histogram[2].value = 1
    /\ histogram[1].labels # histogram[2].labels

----------------------------------------------------------------------------
(* SpecLabels: every protocol version and status class, with and without   *)
(* a construction-time address.                                            *)

Statuses == {200, 399, 400, 404, 503, 599, 600}
LabelRequests ==
    [path : {<<"/", "e", "/", "E">>}, version : Versions,
     host : {None, Some(PEER)}]
LabelOutcomes == {Ok([status |-> st, body |-> "pong"]) : st \in Statuses}
LabelAddrs == {None, Some(HTTPS_SCHEME \o <<"a", ":", "4", "4", "3">>)}

LabelLayer == IsNone(client_mw) /\ layer
LabelConstruct ==
    IsNone(server_mw) /\ \E addr \in LabelAddrs : with_server_address(addr)
LabelCallServer ==
    Len(calls) < MaxLabelCalls /\ \E req \in LabelRequests : ServerCall(req)
LabelCallClient ==
    Len(calls) < MaxLabelCalls /\ \E req \in LabelRequests : ClientCall(req)
LabelResumeServer ==
    \E c \in 1..Len(calls), out \in LabelOutcomes : ServerResume(c, out)
LabelResumeClient ==
    \E c \in 1..Len(calls), out \in LabelOutcomes : ClientResume(c, out)

NextLabels ==
    \/ LabelLayer
    \/ LabelConstruct
    \/ PollReadyServer
    \/ PollReadyClient
    \/ LabelCallServer
    \/ LabelCallClient
    \/ FirstPoll
    \/ LabelResumeServer
    \/ LabelResumeClient

SpecLabels == Init /\ [][NextLabels]_vars

Keys(labels) == [i \in 1..Len(labels) |-> labels[i][1]]
HasKey(labels, key) == \E i \in 1..Len(labels) : labels[i][1] = key
ValuesOf(labels, key) == {labels[i][2] : i \in Positions(Keys(labels), key)}

\* the status of the response the observation at position i was recorded for
StatusOf(i) == calls[histogram[i].call].inner_out.some.ok.status

(* C5: an observation carries error.type exactly when the response status  *)
(* is a client error (4xx) or a server error (5xx), its value then being    *)
(* the status's canonical string ("503 Service Unavailable"); a 2xx         *)
(* response has no error.type.                                             *)
C5_ErrorTypeIffErrorStatus ==
    \A i \in 1..Len(histogram) :
       LET labels == histogram[i].labels
           status == StatusOf(i)
       IN /\ HasKey(labels, "error.type") <=> (400 <= status /\ status <= 599)
          /\ HasKey(labels, "error.type") =>
                ValuesOf(labels, "error.type") =
                   {<<ToString(status), " ",
                      CASE status = 400 -> "Bad Request"
                        [] status = 404 -> "Not Found"
                        [] status = 500 -> "Internal Server Error"
                        [] status = 503 -> "Service Unavailable"
                        [] OTHER -> "<unknown status code>">>}
          /\ (200 <= status /\ status <= 299) => ~HasKey(labels, "error.type")

C5_Witness ==
    \E i \in 1..Len(histogram) :
       /\ StatusOf(i) = 404
       /\ histogram[i].name = "rpc.server.duration"
       /\ ValuesOf(histogram[i].labels, "error.type") =
             {<<"404", " ", "Not Found">>}

(* C6: a label set is, in this order, rpc.system=grpc,                     *)
(* network.protocol.name=http, network.transport=tcp, rpc.method,          *)
(* rpc.service, then server.address (client always, server never), then    *)
(* network.protocol.version (only if resolved), then error.type (only on   *)
(* an error status); no key occurs twice.                                  *)
C6_LabelOrder ==
    \A i \in 1..Len(histogram) :
       LET labels == histogram[i].labels
           call == calls[histogram[i].call]
       IN /\ \E v, e \in BOOLEAN :
                /\ Keys(labels) =
                      <<"rpc.system", "network.protocol.name",
                        "network.transport", "rpc.method", "rpc.service">>
                      \o (IF call.side = "client"
                          THEN <<"server.address">> ELSE <<>>)
                      \o (IF v THEN <<"network.protocol.version">> ELSE <<>>)
                      \o (IF e THEN <<"error.type">> ELSE <<>>)
                /\ v => call.req.version # "OTHER"
                /\ e => StatusOf(i) \in 400..599
          /\ labels[1][2] = <<"grpc">>
          /\ labels[2][2] = <<"http">>
          /\ labels[3][2] = <<"tcp">>
          /\ \A j, k \in 1..Len(labels) : labels[j][1] = labels[k][1] => j = k

C6_Witness ==
    \E i \in 1..Len(histogram) :
       /\ calls[histogram[i].call].side = "client"
       /\ Keys(histogram[i].labels) =
             <<"rpc.system", "network.protocol.name", "network.transport",
               "rpc.method", "rpc.service", "server.address",
               "network.protocol.version", "error.type">>

----------------------------------------------------------------------------
(* SpecAddress: the client middleware, with and without a construction-    *)
(* time address, over requests with different hosts.                       *)

OTHER_PEER == <<"10.0.0.7">>
AddressRequests ==
    [path : {<<"/", "e", "/", "E">>}, version : {"HTTP_2"},
     host : {None, Some(PEER), Some(OTHER_PEER)}]
AddressOutcomes == {Ok([status |-> 200, body |-> "pong"])}
AddressAddrs == {None,
                 Some(<<"a", ":", "4", "4", "3">>),
                 Some(HTTP_SCHEME \o PEER)}

AddressConstruct == \E addr \in AddressAddrs : with_server_address(addr)
AddressCallClient ==
    Len(calls) < MaxAddressCalls /\ \E req \in AddressRequests : ClientCall(req)
AddressResumeClient ==
    \E c \in 1..Len(calls), out \in AddressOutcomes : ClientResume(c, out)

NextAddress ==
    \/ AddressConstruct
    \/ PollReadyClient
    \/ AddressCallClient
    \/ FirstPoll
    \/ AddressResumeClient

SpecAddress == Init /\ [][NextAddress]_vars

(* C10: an observation of the client middleware has server.address equal   *)
(* to the canonicalized address given at construction, whatever the host   *)
(* of the request, when one was given, and otherwise to the host of its    *)
(* own request, or to "unknown" when that request has no host; no call     *)
(* changes the stored address.                                             *)
C10_ServerAddressLabel ==
    /\ IsSome(client_mw) =>
          client_mw.some.server_address =
             CASE addr_arg = Some(HTTP_SCHEME \o PEER) -> Some(PEER)
               [] OTHER -> addr_arg
    /\ \A i \in 1..Len(histogram) :
          LET req == calls[histogram[i].call].req
              stored == client_mw.some.server_address
          IN histogram[i].name = "rpc.client.duration" =>
                ValuesOf(histogram[i].labels, "server.address") =
                   {IF IsSome(addr_arg) THEN stored.some
                    ELSE IF IsSome(req.host) THEN req.host.some
                    ELSE <<"unknown">>}

C10_Witness ==
    /\ addr_arg = Some(<<"a", ":", "4", "4", "3">>)
    /\ Len(histogram) = 2
    /\ calls[histogram[1].call].req.host = Some(OTHER_PEER)
    /\ calls[histogram[2].call].req.host = None
    /\ \A i \in 1..2 : ValuesOf(histogram[i].labels, "server.address") =
                          {<<"a", ":", "4", "4", "3">>}

----------------------------------------------------------------------------
(* SpecParse: one call, over every route path up to MaxPathLen.            *)

PathAlphabet == {"/", "a", "b"}
ParsePaths == UNION {[1..n -> PathAlphabet] : n \in 0..MaxPathLen}
ParseRequests == [path : ParsePaths, version : {"HTTP_2"}, host : {None}]

ParseLayer == IsNone(client_mw) /\ layer
ParseNew == IsNone(server_mw) /\ new
ParseCallServer == calls = <<>> /\ \E req \in ParseRequests : ServerCall(req)
ParseCallClient == calls = <<>> /\ \E req \in ParseRequests : ClientCall(req)

NextParse ==
    \/ ParseLayer
    \/ ParseNew
    \/ PollReadyServer
    \/ PollReadyClient
    \/ ParseCallServer
    \/ ParseCallClient

SpecParse == Init /\ [][NextParse]_vars

(* C7: for a path "/" S "/" M, S holding no "/", both middlewares derive   *)
(* service = S and method = M, M keeping any further "/" it holds.         *)
C7_RouteSplitAtFirstSeparator ==
    \A c \in CallIds :
       LET path == calls[c].req.path
       IN \A k \in 2..Len(path) :
             (/\ path[1] = "/"
              /\ path[k] = "/"
              /\ \A j \in 2..(k - 1) : path[j] # "/")
             => /\ calls[c].rpc_service = SubSeq(path, 2, k - 1)
                /\ calls[c].rpc_method = SubSeq(path, k + 1, Len(path))

C7_Witness ==
    \E c \in CallIds :
       /\ calls[c].side = "client"
       /\ calls[c].req.path = <<"/", "a", "/", "b", "/">>
       /\ calls[c].rpc_service = <<"a">>
       /\ calls[c].rpc_method = <<"b", "/">>

(* C8: for a path that does not start with "/" (the empty path too) or     *)
(* holds no second "/", the call is accepted and both middlewares derive   *)
(* service = "" and method = the whole path.                               *)
C8_UnparseableRoute ==
    \A c \in CallIds :
       LET path == calls[c].req.path
       IN (\/ Len(path) = 0
           \/ path[1] # "/"
           \/ \A k \in 2..Len(path) : path[k] # "/")
          => /\ calls[c].rpc_service = <<>>
             /\ calls[c].rpc_method = path
             /\ calls[c].pc = "created"

C8_Witness ==
    \E c \in CallIds :
       /\ calls[c].side = "server"
       /\ calls[c].req.path = <<"/", "a", "b">>
       /\ calls[c].rpc_service = <<>>
       /\ calls[c].rpc_method = <<"/", "a", "b">>

----------------------------------------------------------------------------
(* SpecCtor: construction of the client middleware over addresses made of  *)
(* up to MaxAddrTokens pieces.                                             *)

AddrTokens == {HTTP_SCHEME, HTTPS_SCHEME,
               <<"H", "T", "T", "P", ":", "/", "/">>,
               <<"h", "t", "t", "p", ":", "/">>,
               <<"a">>, <<"A">>, <<":", "4", "4", "3">>, <<"/">>}

RECURSIVE Concat(_)
Concat(parts) ==
    IF parts = <<>> THEN <<>> ELSE Head(parts) \o Concat(Tail(parts))

CtorAddrs ==
    {Concat(parts) :
        parts \in UNION {[1..n -> AddrTokens] : n \in 0..MaxAddrTokens}}

CtorWithAddress == \E a \in CtorAddrs : with_server_address(Some(a))

NextCtor ==
    \/ CtorWithAddress
    \/ new

SpecCtor == Init /\ [][NextCtor]_vars

(* C9: construction stores the address given with one leading "http://"    *)
(* or "https://" removed, once, and nothing else changed; an address       *)
(* without such a prefix is stored as given, an absent one stays absent.   *)
C9_AddressCanonicalization ==
    IsSome(client_mw) =>
       LET stored == client_mw.some.server_address
       IN IF IsNone(addr_arg) THEN stored = None
          ELSE /\ IsSome(stored)
               /\ \/ addr_arg.some = HTTP_SCHEME \o stored.some
                  \/ addr_arg.some = HTTPS_SCHEME \o stored.some
                  \/ /\ addr_arg.some = stored.some
                     /\ \/ Len(stored.some) < 7
                        \/ SubSeq(stored.some, 1, 7) # HTTP_SCHEME
                     /\ \/ Len(stored.some) < 8
                        \/ SubSeq(stored.some, 1, 8) # HTTPS_SCHEME

C9_Witness ==
    /\ addr_arg = Some(HTTP_SCHEME \o HTTPS_SCHEME \o <<"a">>)
    /\ IsSome(client_mw)
    /\ client_mw.some.server_address = Some(HTTPS_SCHEME \o <<"a">>)

----------------------------------------------------------------------------
(* C11: both resolvers map the wire versions 0.9, 1.0, 1.1, 2 and 3 to     *)
(* "0.9", "1.0", "1.1", "2" and "3" and any other version to no value; an  *)
(* observation has network.protocol.version, with that string, exactly     *)
(* when the version of its request is one of the five.                     *)
C11_ProtocolVersionTable ==
    LET Table(version) ==
            CASE version = "HTTP_09" -> {<<"0", ".", "9">>}
              [] version = "HTTP_10" -> {<<"1", ".", "0">>}
              [] version = "HTTP_11" -> {<<"1", ".", "1">>}
              [] version = "HTTP_2"  -> {<<"2">>}
              [] version = "HTTP_3"  -> {<<"3">>}
              [] OTHER -> {}
    IN /\ \A c \in CallIds :
             (IF IsSome(calls[c].version)
              THEN {calls[c].version.some} ELSE {})
                = Table(calls[c].req.version)
       /\ \A i \in 1..Len(histogram) :
             LET version == calls[histogram[i].call].req.version
                 labels == histogram[i].labels
             IN /\ HasKey(labels, "network.protocol.version")
                      <=> version \in {"HTTP_09", "HTTP_10", "HTTP_11",
                                       "HTTP_2", "HTTP_3"}
                /\ ValuesOf(labels, "network.protocol.version") = Table(version)

C11_Witness ==
    \E i \in 1..Len(histogram) :
       /\ histogram[i].name = "rpc.server.duration"
       /\ calls[histogram[i].call].req.version = "OTHER"
       /\ IsNone(calls[histogram[i].call].version)
       /\ ~HasKey(histogram[i].labels, "network.protocol.version")

----------------------------------------------------------------------------
(* SpecReady: readiness polls with every answer of the inner service,      *)
(* between and during calls.                                               *)

ReadyPollServer == \E r \in PollResults : ServerPollReady(r)
ReadyPollClient == \E r \in PollResults : ClientPollReady(r)
ReadyCallServer == Len(calls) < MaxReadyCalls /\ ServerCall(ReqEcho)
ReadyCallClient == Len(calls) < MaxReadyCalls /\ ClientCall(ReqEcho)

NextReady ==
    \/ layer
    \/ new
    \/ ReadyPollServer
    \/ ReadyPollClient
    \/ ReadyCallServer
    \/ ReadyCallClient
    \/ FirstPoll

SpecReady == Init /\ [][NextReady]_vars

\* the middleware struct of a side, once constructed
Middleware(side) == IF side = "server" THEN server_mw ELSE client_mw

(* C12: poll_ready of both middlewares reports exactly what the held inner *)
(* handle reported (ready, pending or failure), whatever calls are in      *)
(* flight; the middleware holds no queue or admission state of its own.    *)
C12_ReadinessPassThrough ==
    \A side \in Sides :
       /\ IsNone(Middleware(side)) => poll_out[side] = None
       /\ IsSome(Middleware(side)) =>
             LET held == Middleware(side).some.inner
             IN /\ held.polled # "NotPolled" => poll_out[side] = Some(held.polled)
                /\ (held.polled = "NotPolled" /\ IsSome(poll_out[side]))
                      => /\ poll_out[side] = Some("Ready")
                         /\ \E c \in CallIds : calls[c].side = side
                /\ DOMAIN Middleware(side).some \subseteq {"inner", "server_address"}

C12_Witness ==
    /\ \E c \in CallIds : calls[c].side = "server" /\ calls[c].pc = "awaiting"
    /\ IsSome(server_mw) /\ server_mw.some.inner.polled = "Ready"
    /\ poll_out["server"] = Some("Ready")
    /\ IsSome(client_mw) /\ client_mw.some.inner.polled = "Err"
    /\ poll_out["client"] = Some("Err")

----------------------------------------------------------------------------
(* C13: a call whose future is dropped before the inner call completed     *)
(* never records an observation and hands nothing back, and the            *)
(* observations of the other calls through the middleware are what they    *)
(* would be without it: one per call that completed with a response.       *)
C13_CancelledCallUnmeasured ==
    /\ \A c \in CallIds :
          calls[c].pc = "dropped" =>
             /\ ObsOf(c) = {}
             /\ IsNone(calls[c].result)
             /\ IsNone(calls[c].inner_out)
             /\ Len(calls[c].inner_reqs) <= 1
    /\ \A i \in 1..Len(histogram) :
          /\ histogram[i].call \in CallIds
          /\ calls[histogram[i].call].pc = "done"
          /\ \A j \in 1..Len(histogram) :
                histogram[j].call = histogram[i].call => j = i
    /\ \A c \in CallIds : calls[c].pc = "done" => ObsOf(c) # {}

C13_Witness ==
    \E c, d \in CallIds :
       /\ calls[c].pc = "dropped"
       /\ calls[c].events = <<"call", "inner.call", "drop">>
       /\ calls[d].side = calls[c].side
       /\ calls[d].events[Len(calls[d].events)] = "return"
       /\ calls[d].pc = "done"
       /\ c < d
       /\ Len(histogram) = 1 /\ histogram[1].call = d

----------------------------------------------------------------------------
(* C14: an invocation changes nothing observable but the histogram (and    *)
(* what the inner service does): nothing is written to the process's       *)
(* standard output and the stored address stays as constructed.            *)
C14_OnlyMetricsEmitted ==
    /\ stdout = <<>>
    /\ IsSome(client_mw) =>
          client_mw.some.server_address = canonical_addr(addr_arg)
    /\ described \subseteq
          {<<"rpc.server.duration", "Milliseconds",
             "Measures the duration of inbound RPC">>,
           <<"rpc.client.duration", "Milliseconds",
             "Measures the duration of outbound RPC">>}

----------------------------------------------------------------------------
(* C15, as stated: the path "/" gives service "" and method "", and the    *)
(* empty path gives service "" and method "".                              *)
C15_RootPathEmptyMethod ==
    \A c \in CallIds :
       /\ calls[c].req.path = <<"/">> =>
             calls[c].rpc_service = <<>> /\ calls[c].rpc_method = <<>>
       /\ calls[c].req.path = <<>> =>
             calls[c].rpc_service = <<>> /\ calls[c].rpc_method = <<>>

(* C15, amended: the path "/" holds no second "/", so it gives service ""  *)
(* and method "/", the whole path; the empty path gives service "" and     *)
(* method "".                                                              *)
C15_RootPathIsWholeMethod ==
    \A c \in CallIds :
       /\ calls[c].req.path = <<"/">> =>
             calls[c].rpc_service = <<>> /\ calls[c].rpc_method = <<"/">>
       /\ calls[c].req.path = <<>> =>
             calls[c].rpc_service = <<>> /\ calls[c].rpc_method = <<>>

C15_Witness ==
    \E c \in CallIds :
       /\ calls[c].side = "server"
       /\ calls[c].req.path = <<"/">>
       /\ calls[c].rpc_service = <<>>
       /\ calls[c].rpc_method = <<"/">>

----------------------------------------------------------------------------
(* SpecRoute: one call over every route path, driven to its observation.   *)

RouteOutcomes == {Ok([status |-> 200, body |-> "pong"])}
RouteResumeServer ==
    \E c \in 1..Len(calls), out \in RouteOutcomes : ServerResume(c, out)
RouteResumeClient ==
    \E c \in 1..Len(calls), out \in RouteOutcomes : ClientResume(c, out)

NextRoute ==
    \/ ParseLayer
    \/ ParseNew
    \/ PollReadyServer
    \/ PollReadyClient
    \/ ParseCallServer
    \/ ParseCallClient
    \/ FirstPoll
    \/ RouteResumeServer
    \/ RouteResumeClient

SpecRoute == Init /\ [][NextRoute]_vars

(* C16, as stated: the derived method is never the empty string, so every  *)
(* observation has a non-empty rpc.method.                                 *)
C16_MethodNeverEmpty ==
    /\ \A c \in CallIds : calls[c].rpc_method # <<>>
    /\ \A i \in 1..Len(histogram) :
          <<>> \notin ValuesOf(histogram[i].labels, "rpc.method")

(* C16, amended: the derived method is empty exactly when the path is      *)
(* empty or ends at its separator ("/S/", S holding no "/"); every other   *)
(* path, a non-empty unparseable one included, gives a non-empty method;   *)
(* an observation's rpc.method is the derived method, empty or not.        *)
C16_MethodEmptyOnlyWithoutTail ==
    /\ \A c \in CallIds :
          LET path == calls[c].req.path
          IN calls[c].rpc_method = <<>>
                <=> \/ path = <<>>
                    \/ /\ Len(path) >= 2
                       /\ path[1] = "/"
                       /\ path[Len(path)] = "/"
                       /\ \A k \in 2..(Len(path) - 1) : path[k] # "/"
    /\ \A i \in 1..Len(histogram) :
          ValuesOf(histogram[i].labels, "rpc.method") =
             {calls[histogram[i].call].rpc_method}

C16_Witness ==
    \E i \in 1..Len(histogram) :
       /\ histogram[i].name = "rpc.client.duration"
       /\ calls[histogram[i].call].req.path = <<"/", "a", "/">>
       /\ ValuesOf(histogram[i].labels, "rpc.method") = {<<>>}
       /\ ValuesOf(histogram[i].labels, "rpc.service") = {<<"a">>}

----------------------------------------------------------------------------
(* C17: the value recorded for a completed call is the whole number of     *)
(* milliseconds, rounded down and never negative, between the clock read   *)
(* in `call` and the return of the inner response (0 for a call shorter    *)
(* than one millisecond); the milliseconds the future spent waiting for    *)
(* its first poll are part of it.                                          *)
C17_DurationFromCallToResponse ==
    \A c \in CallIds :
       InnerResponded(c) =>
          \A i \in ObsOf(c) :
             LET elapsed == calls[c].done_at.some - calls[c].start
                 value == histogram[i].value
             IN /\ elapsed >= 0
                /\ value >= 0
                /\ value * TicksPerMs <= elapsed
                /\ elapsed < (value + 1) * TicksPerMs
                /\ (elapsed < TicksPerMs => value = 0)
                /\ value >= calls[c].waited.some

C17_Witness ==
    /\ \E c \in CallIds :
          /\ InnerResponded(c)
          /\ calls[c].waited.some >= 1
          /\ \A i \in ObsOf(c) : histogram[i].value = calls[c].waited.some
    /\ \E c \in CallIds :
          /\ InnerResponded(c)
          /\ calls[c].done_at.some > calls[c].start
          /\ \A i \in ObsOf(c) : histogram[i].value = 0
    /\ Len(histogram) = 2

----------------------------------------------------------------------------
\* the handles owned by the calls that have not finished
InFlight == {c \in CallIds : calls[c].pc \in {"created", "awaiting"}}

====
